---- MODULE Spec2Model ----
(***************************************************************************)
(* Model of the thalamus schema analyzer: the five-node LangGraph          *)
(* pipeline analyze_fields -> match_entities -> normalize_schema ->        *)
(* generate_mappings -> prepare_response and its entry point               *)
(* analyze_schema.                                                         *)
(*                                                                         *)
(* Conventions                                                             *)
(*  - a Python slot or dict key is an option: None (= <<>>) when the value *)
(*    is None or the key is missing, Some(v) (= <<v>>) when it holds v;    *)
(*  - a text built by an f-string is the tuple of its pieces, for example  *)
(*    <<"Field analysis failed: ", cause>>; a plain text s is <<s>>;       *)
(*  - a confidence is counted in tenths (0.8 is 8, 1.5 is 15);             *)
(*  - an LLM reply is [form, value]: form "json" when the text is one JSON *)
(*    value, "wrapped" when a JSON object is embedded in other text,       *)
(*    "garbage" when no JSON can be found in it.                           *)
(***************************************************************************)
EXTENDS Integers, Sequences, FiniteSets, TLC

\* ------------------------------------------------------------------ values

None == <<>>

Some(v) == <<v>>

\* Python truthiness of an optional string: None and "" are falsy.
Truthy(o) == o /= None /\ o[1] /= ""

\* Python truthiness of an optional text (tuple of pieces).
TruthyText(o) == o /= None /\ o[1] /= <<"">>

Text(s) == <<s>>

\* Longest field_mappings list an LLM reply carries in the model.
MaxMappings == 2

\* similarity_score threshold of the matcher's decision rule.
Threshold == 75

\* confidence given to a mapping that carries none (0.8, in tenths).
DefaultConfidence == 8

NoneTypeHasNoGet == "'NoneType' object has no attribute 'get'"

ListHasNoGet == "'list' object has no attribute 'get'"

JSONDecodeError == "Expecting value: line 1 column 1 (char 0)"

LLMError == "Bedrock invocation failed"

\* ---------------------------------------------------------------- request

Field(n, t, r) == [name |-> n, type |-> t, required |-> r]

DetectedFieldChoices ==
    { <<>>,
      <<Field("email", "string", TRUE)>>,
      <<Field("email", "string", TRUE), Field("phonenumber", "string", FALSE)>> }

Customer == [id |-> 1, name |-> "Customer",
             fields |-> <<Field("email", "string", TRUE)>>]

CatalogueChoices == { <<>>, <<Customer>> }

SchemaHash == "abcdef0123456789"

\* hash[:8]
FirstEight(h) == IF h = "abcdef0123456789" THEN "abcdef01" ELSE h

Requests ==
    { [incoming_schema |-> [hash |-> SchemaHash, name |-> "contacts_import",
                            detected_fields |-> df, sample_data |-> <<>>],
       existing_entities |-> cat] :
         df \in DetectedFieldChoices, cat \in CatalogueChoices }

InitialState(request) ==
    [incoming_schema |-> request.incoming_schema,
     existing_entities |-> request.existing_entities,
     current_step |-> "starting",
     processing_history |-> <<>>,
     field_analysis |-> None,
     normalization_suggestions |-> None,
     entity_match_results |-> None,
     action |-> None,
     entity_id |-> None,
     entity_name |-> None,
     source_schema_name |-> None,
     similarity_score |-> None,
     reasoning |-> None,
     canonical_schema |-> None,
     field_mappings |-> None,
     error |-> None,
     final_response |-> None]

\* ------------------------------------------------------------ LLM replies

Reply(form, v) == [form |-> form, value |-> v]

Garbage == Reply("garbage", None)

\* json.loads(response.content): None stands for JSONDecodeError.
JsonLoads(reply) == IF reply.form = "json" THEN reply.value ELSE None

\* re.search(r'\{.*\}') followed by json.loads of the match.
ExtractObject(reply) == IF reply.form = "wrapped" THEN reply.value ELSE None

\* ---------------------------------------------------------- field analyzer

\* A field analysis is "dict" (a JSON object) or "list" (a non-empty JSON
\* array, which has no .get).
FieldAnalysisReplies == { Reply("json", Some("dict")), Reply("json", Some("list")),
                          Reply("wrapped", Some("dict")), Garbage }

\* AnalyzeFieldsFailed that tags the failure in processing_history.
AnalyzeFieldsFailed_Tags(s, cause) ==
    [s EXCEPT !.error = Some(<<"Field analysis failed: ", cause>>),
              !.processing_history = Append(@, "field_analysis_failed")]

\* except-branch of analyze_fields.
AnalyzeFieldsFailed(s, cause) ==
    [s EXCEPT !.error = Some(<<"Field analysis failed: ", cause>>)]

\* try-body of analyze_fields once the LLM has replied.
AnalyzeFieldsReturn(s, reply) ==
    LET parsed == JsonLoads(reply) IN
    IF parsed = None THEN AnalyzeFieldsFailed(s, JSONDecodeError)
    ELSE LET s1 == [s EXCEPT !.field_analysis = parsed,
                             !.processing_history = Append(@, "field_analysis_completed")]
         IN IF parsed[1] = "dict" THEN s1
            ELSE AnalyzeFieldsFailed(s1, ListHasNoGet)

\* ---------------------------------------------------------- entity matcher

BestMatch(id, score) == [entity_id |-> id, similarity_score |-> score]

\* A parsed matcher result: a JSON object with its best_match, should_create_new
\* and reason keys (None: key missing or null), or a JSON array.
MatchDict(bm, scn, reason) ==
    [kind |-> "dict", best_match |-> bm, should_create_new |-> scn, reason |-> reason]

MatchList == [kind |-> "list", best_match |-> None, should_create_new |-> None,
              reason |-> None]

\* {"best_match": None, "candidates": []}
MatchDefault == MatchDict(None, None, None)

MatchSkipped == MatchDict(None, Some(TRUE),
                          Some("No existing canonical entities in the system"))

BestMatchChoices ==
    { None,
      Some(BestMatch(Some(1), Some(74))),
      Some(BestMatch(Some(1), Some(75))),
      Some(BestMatch(Some(1), Some(90))),
      Some(BestMatch(Some(1), Some(101))),
      Some(BestMatch(Some(2), Some(90))),
      Some(BestMatch(None, Some(90))),
      Some(BestMatch(Some(1), None)) }

MatchReplies ==
    { Reply("json", Some(MatchDict(bm, Some(scn), Some("llm reason")))) :
        bm \in BestMatchChoices, scn \in BOOLEAN }
    \cup { Reply("wrapped", Some(MatchDict(Some(BestMatch(Some(1), Some(90))),
                                           Some(FALSE), Some("llm reason")))),
           Reply("json", Some(MatchList)),
           Garbage }

\* MatchSkip with the decision taken in the short-circuit as well.
MatchSkip_SetsAction(s) ==
    [s EXCEPT !.entity_match_results = Some(MatchSkipped),
              !.action = Some("create_new"),
              !.processing_history = Append(@, "entity_matching_skipped")]

\* Short-circuit of match_entities for an empty catalogue.
MatchSkip(s) ==
    [s EXCEPT !.entity_match_results = Some(MatchSkipped),
              !.processing_history = Append(@, "entity_matching_skipped")]

\* _build_entity_matching_prompt: None when the prompt is built, else the
\* message of the exception it raises.
MatchPromptError(s) ==
    IF s.field_analysis /= None /\ s.field_analysis[1] = "list"
    THEN Some(ListHasNoGet) ELSE None

\* MatchEntitiesFailed that records the failure and leaves the decision as the
\* try-body left it.
MatchEntitiesFailed_KeepsDecision(s, cause) ==
    [s EXCEPT !.error = Some(<<"Entity matching failed: ", cause>>),
              !.processing_history = Append(@, "entity_matching_failed")]

\* MatchEntitiesFailed that also empties the catalogue it could not match.
MatchEntitiesFailed_DropsCatalogue(s, cause) ==
    [s EXCEPT !.error = Some(<<"Entity matching failed: ", cause>>),
              !.action = Some("create_new"),
              !.entity_id = None,
              !.similarity_score = None,
              !.existing_entities = <<>>,
              !.processing_history = Append(@, "entity_matching_failed")]

\* except-branch of match_entities.
MatchEntitiesFailed(s, cause) ==
    [s EXCEPT !.error = Some(<<"Entity matching failed: ", cause>>),
              !.action = Some("create_new"),
              !.entity_id = None,
              !.similarity_score = None,
              !.processing_history = Append(@, "entity_matching_failed")]

\* ParseMatch without the default: unparseable text yields no JSON object.
ParseMatch_WithoutDefault(reply) ==
    IF JsonLoads(reply) /= None THEN JsonLoads(reply)[1]
    ELSE IF ExtractObject(reply) /= None THEN ExtractObject(reply)[1]
    ELSE MatchList

\* json.loads with the regex repair and the default of match_entities.
ParseMatch(reply) ==
    IF JsonLoads(reply) /= None THEN JsonLoads(reply)[1]
    ELSE IF ExtractObject(reply) /= None THEN ExtractObject(reply)[1]
    ELSE MatchDefault

\* best_match.get("similarity_score", 0)
ScoreOf(bm) == IF bm.similarity_score = None THEN 0 ELSE bm.similarity_score[1]

\* MapsToExisting with a strict comparison.
MapsToExisting_Strict(results) ==
    /\ results.best_match /= None
    /\ ScoreOf(results.best_match[1]) > Threshold

\* match_results.get("best_match") and best_match.get("similarity_score", 0) >= 75
MapsToExisting(results) ==
    /\ results.best_match /= None
    /\ ScoreOf(results.best_match[1]) >= Threshold

\* try-body of match_entities once the LLM has replied.
MatchEntitiesReturn(s, reply) ==
    LET results == ParseMatch(reply)
        s1 == [s EXCEPT !.entity_match_results = Some(results)]
    IN IF results.kind /= "dict" THEN MatchEntitiesFailed(s1, ListHasNoGet)
       ELSE IF MapsToExisting(results)
       THEN LET bm == results.best_match[1] IN
            IF bm.entity_id = None
            THEN MatchEntitiesFailed([s1 EXCEPT !.action = Some("map_to_existing")],
                                     "'entity_id'")
            ELSE [s1 EXCEPT !.action = Some("map_to_existing"),
                            !.entity_id = bm.entity_id,
                            !.similarity_score = bm.similarity_score,
                            !.processing_history = Append(@, "entity_matching_completed")]
       ELSE [s1 EXCEPT !.action = Some("create_new"),
                       !.entity_id = None,
                       !.similarity_score = None,
                       !.processing_history = Append(@, "entity_matching_completed")]

\* -------------------------------------------------------- schema normalizer

CanonicalSchema(fields) == [fields |-> fields]

\* Stands for the name of a field dict that has no key "name".
NoName == "<no name key>"

CanonicalChoices ==
    { None,
      Some(CanonicalSchema(None)),
      Some(CanonicalSchema(Some(<<>>))),
      Some(CanonicalSchema(Some(<<Field("email", "string", TRUE),
                                  Field(NoName, "string", FALSE)>>))),
      Some(CanonicalSchema(Some(<<Field("email", "string", TRUE),
                                  Field("phone_number", "string", FALSE),
                                  Field("created_at", "datetime", FALSE)>>))) }

\* A parsed normalizer result: a JSON object with its four keys (None: key
\* missing), or a JSON array.
NormDict(en, ssn, cs, r) ==
    [kind |-> "dict", entity_name |-> en, source_schema_name |-> ssn,
     canonical_schema |-> cs, reasoning |-> r]

NormList == [kind |-> "list", entity_name |-> None, source_schema_name |-> None,
             canonical_schema |-> None, reasoning |-> None]

NormReplies ==
    { Reply("json", Some(NormDict(en, ssn, cs, r))) :
        en \in { None, Some(""), Some("Customer") },
        ssn \in { None, Some(Text("crm_contacts")) },
        cs \in CanonicalChoices,
        r \in { None, Some(Text("split the composite fields")) } }
    \cup { Reply("json", Some(NormList)),
           Reply("wrapped", Some(NormDict(Some("Customer"), Some(Text("crm_contacts")),
                                          Some(CanonicalSchema(Some(<<>>))), None))),
           Garbage }

\* _find_entity_by_id: the entity, or None for the empty dict.
FindEntityById(entities, id) ==
    IF \E i \in 1..Len(entities) : Some(entities[i].id) = id
    THEN Some(entities[CHOOSE i \in 1..Len(entities) :
                         /\ Some(entities[i].id) = id
                         /\ \A j \in 1..(i-1) : Some(entities[j].id) /= id])
    ELSE None

\* Prompt building of normalize_schema: None when a prompt is built, else the
\* message of the exception it raises.
NormPromptError(s) ==
    IF s.action = Some("map_to_existing") THEN None
    ELSE IF s.entity_match_results = None THEN Some(NoneTypeHasNoGet)
    ELSE IF s.entity_match_results[1].kind /= "dict" THEN Some(ListHasNoGet)
    ELSE None

\* NormalizeFailed that tags the failure in processing_history.
NormalizeFailed_Tags(s, cause) ==
    [s EXCEPT !.error = Some(<<"Schema normalization failed: ", cause>>),
              !.processing_history = Append(@, "normalization_failed")]

\* except-branch of normalize_schema.
NormalizeFailed(s, cause) ==
    [s EXCEPT !.error = Some(<<"Schema normalization failed: ", cause>>)]

\* try-body of normalize_schema once the LLM has replied; the assignments
\* made before an exception stay.
NormalizeReturn(s, reply) ==
    LET parsed == JsonLoads(reply) IN
    IF parsed = None THEN NormalizeFailed(s, JSONDecodeError)
    ELSE
    LET r == parsed[1]
        s1 == [s EXCEPT !.normalization_suggestions = Some(r)]
        s2 == [s1 EXCEPT !.entity_name = r.entity_name]
        s3 == [s2 EXCEPT !.source_schema_name = r.source_schema_name]
        s4 == [s3 EXCEPT !.canonical_schema = r.canonical_schema]
        s5 == [s4 EXCEPT !.reasoning = IF r.reasoning = None THEN Some(Text(""))
                                       ELSE r.reasoning,
                         !.processing_history = Append(@, "normalization_completed")]
    IN IF r.kind /= "dict" THEN NormalizeFailed(s1, "list indices must be integers")
       ELSE IF r.entity_name = None THEN NormalizeFailed(s1, "'entity_name'")
       ELSE IF r.source_schema_name = None THEN NormalizeFailed(s2, "'source_schema_name'")
       ELSE IF r.canonical_schema = None THEN NormalizeFailed(s3, "'canonical_schema'")
       ELSE IF r.canonical_schema[1].fields = None THEN NormalizeFailed(s5, "'fields'")
       ELSE s5

\* -------------------------------------------------------- mapping generator

Mapping(src, tgt, tr, formula, conf, expl) ==
    [source_field |-> src, target_field |-> tgt, transformation |-> tr,
     jsonata_formula |-> formula, confidence |-> conf, explanation |-> expl]

\* Stands for a transformation value that is not a string (null, a number).
NonString == "<not a string>"

MappingChoices ==
    { Mapping(Some("email"), Some("email"), Some("direct"), Some("email"),
              Some(10), Some("Direct mapping of email field")),
      Mapping(None, Some("phone_number"), Some("CONCAT"), None, None, None),
      Mapping(Some("phonenumber"), Some(""), Some("direct"), Some("phonenumber"),
              Some(9), Some("no target")),
      Mapping(Some("email"), Some("created_at"), Some("timestamp_now"), Some("$now()"),
              Some(15), Some("import time")),
      Mapping(Some("phonenumber"), Some("phone_number"), None, None, Some(7), None),
      Mapping(Some("email"), Some("email"), Some(NonString), Some("email"),
              Some(9), Some("null transformation")) }

MappingLists ==
    UNION { [1..n -> MappingChoices] : n \in 0..MaxMappings }

\* The field_mappings value of a reply: a list, or a value that is no list
\* and cannot be iterated (null, a number).
MappingsList(items) == [islist |-> TRUE, items |-> items]

NotAList == [islist |-> FALSE, items |-> <<>>]

\* A parsed mapping result: a JSON object with its field_mappings key (None:
\* key missing), or a JSON array.
MappingsDict(fm) == [kind |-> "dict", field_mappings |-> fm]

MappingsArray == [kind |-> "list", field_mappings |-> None]

MappingReplies ==
    { Reply("json", Some(MappingsDict(Some(MappingsList(l))))) : l \in MappingLists }
    \cup { Reply("json", Some(MappingsDict(None))),
           Reply("json", Some(MappingsDict(Some(NotAList)))),
           Reply("json", Some(MappingsArray)),
           Reply("wrapped", Some(MappingsDict(Some(MappingsList(<<>>))))),
           Reply("wrapped", Some(MappingsDict(None))),
           Garbage }

VALID_TRANSFORMATIONS ==
    { "direct", "formula", "split", "combine", "format_conversion", "constant" }

\* TRANSFORMATION_MAPPING.get(transformation, "direct")
TRANSFORMATION_MAPPING_DefaultDirect(t) ==
    CASE t \in { "extract", "uppercase", "lowercase", "trim", "parse" } -> "formula"
      [] t \in { "unix_to_datetime", "date_format" } -> "format_conversion"
      [] t \in { "concat", "concatenate", "merge", "join" } -> "combine"
      [] OTHER -> "direct"

\* TRANSFORMATION_MAPPING.get(transformation, "formula")
TRANSFORMATION_MAPPING(t) ==
    CASE t \in { "extract", "uppercase", "lowercase", "trim", "parse" } -> "formula"
      [] t \in { "unix_to_datetime", "date_format" } -> "format_conversion"
      [] t \in { "concat", "concatenate", "merge", "join" } -> "combine"
      [] OTHER -> "formula"

\* str.lower() on the transformation strings of the model.
Lower(t) ==
    CASE t = "CONCAT" -> "concat"
      [] t = "Direct" -> "direct"
      [] t = "Trim" -> "trim"
      [] OTHER -> t

\* str.replace("_", "") on the field names of the model.
StripUnderscores(n) ==
    CASE n = "phone_number" -> "phonenumber"
      [] n = "created_at" -> "createdat"
      [] n = "first_name" -> "firstname"
      [] OTHER -> n

\* NormalizeTransformation without the replacement of non-standard values.
NormalizeTransformation_Unmapped(m) ==
    IF m.transformation = None THEN "direct" ELSE Lower(m.transformation[1])

\* Body of the loop of _validate_mappings for a mapping that has a target_field.
NormalizeTransformation(m) ==
    LET raw == IF m.transformation = None THEN "direct" ELSE m.transformation[1]
        low == Lower(raw)
    IN IF low \in VALID_TRANSFORMATIONS THEN low ELSE TRANSFORMATION_MAPPING(low)

\* ValidateMapping that names the target field as the source of a mapping
\* without source_field.
ValidateMapping_SourceFromTarget(m) ==
    LET t == NormalizeTransformation(m)
        formula == IF Truthy(m.jsonata_formula) THEN m.jsonata_formula
                   ELSE IF t = "direct" /\ Truthy(m.source_field) THEN m.source_field
                   ELSE IF t = "constant" THEN Some("\"\"")
                   ELSE m.jsonata_formula
    IN [m EXCEPT !.transformation = Some(t),
                 !.confidence = IF @ = None THEN Some(DefaultConfidence) ELSE @,
                 !.jsonata_formula = formula,
                 !.source_field = IF @ = None THEN m.target_field ELSE @]

ValidateMapping(m) ==
    LET t == NormalizeTransformation(m)
        formula == IF Truthy(m.jsonata_formula) THEN m.jsonata_formula
                   ELSE IF t = "direct" /\ Truthy(m.source_field) THEN m.source_field
                   ELSE IF t = "constant" THEN Some("\"\"")
                   ELSE m.jsonata_formula
    IN [m EXCEPT !.transformation = Some(t),
                 !.confidence = IF @ = None THEN Some(DefaultConfidence) ELSE @,
                 !.jsonata_formula = formula,
                 !.source_field = IF @ = None THEN Some("") ELSE @]

\* _validate_mappings on a list: the validated list, or the exception raised by
\* .lower() on a transformation that is not a string.
ValidateMappings(mappings) ==
    LET kept == SelectSeq(mappings, LAMBDA m : Truthy(m.target_field))
    IN IF \E i \in 1..Len(kept) : kept[i].transformation = Some(NonString)
       THEN [raised |-> TRUE, cause |-> "'NoneType' object has no attribute 'lower'",
             value |-> <<>>]
       ELSE [raised |-> FALSE, cause |-> "",
             value |-> [i \in 1..Len(kept) |-> ValidateMapping(kept[i])]]

\* FallbackMapping that tries the name without underscores first.
FallbackMapping_VariationFirst(source_names, target_name) ==
    IF StripUnderscores(target_name) \in source_names
    THEN Mapping(Some(StripUnderscores(target_name)), Some(target_name), Some("direct"),
                 Some(StripUnderscores(target_name)), Some(7),
                 Some("Field name match with underscore variation"))
    ELSE IF target_name \in source_names
    THEN Mapping(Some(target_name), Some(target_name), Some("direct"),
                 Some(target_name), Some(9), Some("Direct field name match"))
    ELSE Mapping(Some(""), Some(target_name), Some("constant"), Some("null"), Some(5),
                 Some("No matching source field found"))

FallbackMapping(source_names, target_name) ==
    IF target_name \in source_names
    THEN Mapping(Some(target_name), Some(target_name), Some("direct"),
                 Some(target_name), Some(9), Some("Direct field name match"))
    ELSE IF StripUnderscores(target_name) \in source_names
    THEN Mapping(Some(StripUnderscores(target_name)), Some(target_name), Some("direct"),
                 Some(StripUnderscores(target_name)), Some(7),
                 Some("Field name match with underscore variation"))
    ELSE Mapping(Some(""), Some(target_name), Some("constant"), Some("null"), Some(5),
                 Some("No matching source field found"))

GenerateFallbackMappings(source_fields, target_fields) ==
    LET source_names == { source_fields[i].name : i \in 1..Len(source_fields) }
    IN [i \in 1..Len(target_fields) |->
          FallbackMapping(source_names, target_fields[i].name)]

\* _build_mapping_prompt: None when the prompt is built, else the message of
\* the exception it raises.
MappingPromptError(s) ==
    IF s.normalization_suggestions = None THEN Some(NoneTypeHasNoGet)
    ELSE IF s.normalization_suggestions[1].kind /= "dict" THEN Some(ListHasNoGet)
    ELSE IF s.canonical_schema = None THEN Some(NoneTypeHasNoGet)
    ELSE IF s.field_analysis = None THEN Some(NoneTypeHasNoGet)
    ELSE IF s.field_analysis[1] /= "dict" THEN Some(ListHasNoGet)
    ELSE None

\* A stage outcome: the state it returns, or the exception that escapes it.
Returns(s) == [raised |-> FALSE, cause |-> "", state |-> s]

Raises(s, cause) == [raised |-> TRUE, cause |-> cause, state |-> s]

\* target_field["name"] of _generate_fallback_mappings raises KeyError.
FallbackRaises(target_fields) ==
    \E i \in 1..Len(target_fields) : target_fields[i].name = NoName

\* except-branch of generate_mappings.
GenerateMappingsFailed(s, cause) ==
    LET s1 == [s EXCEPT !.error = Some(<<"Mapping generation failed: ", cause>>)]
    IN IF s.canonical_schema = None THEN Raises(s1, NoneTypeHasNoGet)
       ELSE LET cs == s.canonical_schema[1]
                targets == IF cs.fields = None THEN <<>> ELSE cs.fields[1]
            IN IF FallbackRaises(targets) THEN Raises(s1, "'name'")
               ELSE
               Returns([s1 EXCEPT !.field_mappings =
                          Some(GenerateFallbackMappings(
                                 s.incoming_schema.detected_fields, targets))])

\* json.loads with the regex repair and the default of generate_mappings.
ParseMappings(reply) ==
    IF JsonLoads(reply) /= None THEN JsonLoads(reply)[1]
    ELSE IF ExtractObject(reply) /= None /\ ExtractObject(reply)[1].kind = "dict"
            /\ ExtractObject(reply)[1].field_mappings /= None
    THEN ExtractObject(reply)[1]
    ELSE MappingsDict(Some(MappingsList(<<>>)))

\* try-body of generate_mappings once the LLM has replied.
GenerateMappingsReturn(s, reply) ==
    LET result == ParseMappings(reply) IN
    IF result.kind /= "dict" THEN GenerateMappingsFailed(s, ListHasNoGet)
    ELSE LET fm == IF result.field_mappings = None THEN MappingsList(<<>>)
                   ELSE result.field_mappings[1]
         IN IF ~fm.islist
            THEN GenerateMappingsFailed(s, "'NoneType' object is not iterable")
            ELSE LET v == ValidateMappings(fm.items) IN
                 IF v.raised THEN GenerateMappingsFailed(s, v.cause)
                 ELSE Returns([s EXCEPT !.field_mappings = Some(v.value),
                                        !.processing_history =
                                            Append(@, "mapping_generation_completed")])

\* --------------------------------------------------------- response assembly

\* The canonical schema built from the detected fields.
SchemaFromDetected(incoming_schema) ==
    LET df == incoming_schema.detected_fields
    IN CanonicalSchema(Some([i \in 1..Len(df) |->
                               Field(df[i].name, df[i].type, df[i].required)]))

\* not canonical_schema or not canonical_schema.get("fields")
SchemaIsEmpty(cs) ==
    \/ cs = None
    \/ cs[1].fields = None
    \/ cs[1].fields[1] = <<>>

\* Truthiness of a canonical schema dict: the dict without keys is falsy.
SchemaIsTruthy(cs) == cs /= None /\ cs[1].fields /= None

\* The mapping rebuilt by _validate_response from one that has a target_field.
RebuildMapping(m) ==
    Mapping(IF m.source_field = None THEN Some("") ELSE m.source_field,
            m.target_field,
            IF m.transformation = None THEN Some("direct") ELSE m.transformation,
            IF m.jsonata_formula = None THEN Some("") ELSE m.jsonata_formula,
            IF m.confidence = None THEN Some(DefaultConfidence) ELSE m.confidence,
            IF m.explanation = None THEN Some("") ELSE m.explanation)

\* ValidatedMappings that keeps every mapping that has the key target_field.
ValidatedMappings_KeepsEmptyTarget(fm) ==
    LET mappings == IF fm = None THEN <<>> ELSE fm[1]
        kept == SelectSeq(mappings, LAMBDA m : m.target_field /= None)
    IN [i \in 1..Len(kept) |-> RebuildMapping(kept[i])]

\* The field_mappings pass of _validate_response.
ValidatedMappings(fm) ==
    LET mappings == IF fm = None THEN <<>> ELSE fm[1]
        kept == SelectSeq(mappings, LAMBDA m : Truthy(m.target_field))
    IN [i \in 1..Len(kept) |-> RebuildMapping(kept[i])]

\* The canonical_schema pass of _validate_response; assumes the suggestions
\* can be read.
RepairedSchema(response, s) ==
    IF ~SchemaIsEmpty(response.canonical_schema) THEN response.canonical_schema
    ELSE IF SchemaIsTruthy(s.normalization_suggestions[1].canonical_schema)
    THEN s.normalization_suggestions[1].canonical_schema
    ELSE Some(SchemaFromDetected(s.incoming_schema))

\* _validate_response: the repaired response, or the exception it raises.
ValidateResponse(response, s) ==
    IF SchemaIsEmpty(response.canonical_schema) /\ s.normalization_suggestions = None
    THEN [raised |-> TRUE, cause |-> NoneTypeHasNoGet, value |-> None]
    ELSE IF SchemaIsEmpty(response.canonical_schema)
            /\ s.normalization_suggestions[1].kind /= "dict"
    THEN [raised |-> TRUE, cause |-> ListHasNoGet, value |-> None]
    ELSE [raised |-> FALSE, cause |-> "",
          value |-> Some(
            [response EXCEPT
               !.canonical_schema = RepairedSchema(response, s),
               !.field_mappings = Some(ValidatedMappings(response.field_mappings)),
               !.source_schema_name =
                   IF TruthyText(@) THEN @
                   ELSE Some(<<"source_", FirstEight(s.incoming_schema.hash)>>),
               !.entity_name = IF Truthy(@) THEN @ ELSE Some("DataEntity"),
               !.reasoning =
                   IF TruthyText(@) THEN @
                   ELSE Some(Text("Schema analyzed through multi-step agent pipeline"))])]

\* ErrorMapping that rates the direct mapping like an exact name match.
ErrorMapping_ExactMatchConfidence(field) ==
    Mapping(Some(field.name), Some(field.name), Some("direct"), Some(field.name),
            Some(9), Some("Fallback direct mapping due to processing error"))

ErrorMapping(field) ==
    Mapping(Some(field.name), Some(field.name), Some("direct"), Some(field.name),
            Some(5), Some("Fallback direct mapping due to processing error"))

\* _create_error_response, which reads only state["incoming_schema"].
CreateErrorResponse(incoming_schema, error) ==
    LET df == incoming_schema.detected_fields IN
    [action |-> Some("create_new"),
     entity_id |-> None,
     entity_name |-> Some("DataEntity"),
     source_schema_name |-> Some(Text(incoming_schema.name)),
     similarity_score |-> None,
     reasoning |-> Some(<<"Fallback response due to error: ", error>>),
     canonical_schema |-> Some(SchemaFromDetected(incoming_schema)),
     field_mappings |-> Some([i \in 1..Len(df) |-> ErrorMapping(df[i])])]

\* The response dict of prepare_response: state.get(key, default) returns the
\* slot, every key being in the state since analyze_schema initialised it.
ResponseFromState(s) ==
    [action |-> s.action,
     entity_id |-> s.entity_id,
     entity_name |-> s.entity_name,
     source_schema_name |-> s.source_schema_name,
     similarity_score |-> s.similarity_score,
     reasoning |-> s.reasoning,
     canonical_schema |-> s.canonical_schema,
     field_mappings |-> s.field_mappings]

PrepareResponse(s) ==
    LET v == ValidateResponse(ResponseFromState(s), s) IN
    IF v.raised
    THEN [s EXCEPT !.final_response =
                       Some(CreateErrorResponse(s.incoming_schema, v.cause))]
    ELSE [s EXCEPT !.final_response = v.value,
                   !.processing_history = Append(@, "response_prepared")]

\* --------------------------------------------------------------- entry point

\* What analyze_schema hands to its caller.
Response(r) == [kind |-> "response", response |-> Some(r), cause |-> ""]

Propagated(cause) == [kind |-> "exception", response |-> None, cause |-> cause]

NotReturned == [kind |-> "none", response |-> None, cause |-> ""]

\* OnPipelineException that lets the exception go to the caller.
OnPipelineException_Reraises(request, cause) == Propagated(cause)

\* except-branch of analyze_schema.
OnPipelineException(request, cause) ==
    Response(CreateErrorResponse(request.incoming_schema, cause))

\* The else-branch of analyze_schema: the response rebuilt from final_state,
\* with the action forced to create_new when it is not set.
ResponseFromFinalState(fs) ==
    [ResponseFromState(fs) EXCEPT
        !.action = IF Truthy(fs.action) THEN fs.action ELSE Some("create_new")]

\* try-body of analyze_schema after graph.ainvoke has returned final_state.
ExtractResponse(request, fs) ==
    IF fs.final_response /= None THEN Response(fs.final_response[1])
    ELSE LET v == ValidateResponse(ResponseFromFinalState(fs), fs) IN
         IF v.raised THEN OnPipelineException(request, v.cause)
         ELSE Response(v.value[1])

\* ------------------------------------------------------------------ workflow

Nodes == << "analyze_fields", "match_entities", "normalize_schema",
            "generate_mappings", "prepare_response" >>

NodeSet == { Nodes[i] : i \in 1..Len(Nodes) }

EntryPoint == "analyze_fields"

\* Edges with the matcher and the normalizer both fed by the field analyzer.
Edges_FanOut ==
    { << "analyze_fields", "match_entities" >>,
      << "analyze_fields", "normalize_schema" >>,
      << "normalize_schema", "generate_mappings" >>,
      << "generate_mappings", "prepare_response" >>,
      << "prepare_response", "END" >> }

Edges ==
    { << "analyze_fields", "match_entities" >>,
      << "match_entities", "normalize_schema" >>,
      << "normalize_schema", "generate_mappings" >>,
      << "generate_mappings", "prepare_response" >>,
      << "prepare_response", "END" >> }

Successors(n) == { m \in NodeSet : << n, m >> \in Edges }

VARIABLES
    request,              \* the request analyze_schema was called with
    final_response_kept,  \* whether the graph runtime hands back the key
                          \* "final_response", which SchemaAnalysisState does
                          \* not declare
    state,                \* the workflow state threaded through the nodes
    pending,              \* nodes triggered and not yet started
    inflight,             \* nodes awaiting their LLM call
    runs,                 \* how often each node was started
    completions,          \* how often each node returned its state
    llm_clients,          \* get_bedrock_llm calls
    llm_calls,            \* llm.ainvoke calls
    phase,                \* "running", "raised" (the graph raised), "done"
    exc,                  \* message of the exception the graph raised
    returned,             \* what analyze_schema handed to its caller
    log,                  \* what each stage's llm.ainvoke did, once it ended:
                          \* whether it raised, the form of its reply and
                          \* whether the reply was well-formed
    probe,                \* a repair function applied on its own: its
                          \* argument and its results
    calls,                \* concurrent analyze_schema calls, by request
    checkpoints           \* workflow state each checkpointer holds, by thread

vars == << request, final_response_kept, state, pending, inflight, runs,
           completions, llm_clients, llm_calls, phase, exc, returned, log,
           probe, calls, checkpoints >>

\* The stages that call an LLM.
LLMNodes == { "analyze_fields", "match_entities", "normalize_schema",
              "generate_mappings" }

\* llm.ainvoke raised.
Raised == [raised |-> TRUE, reply |-> None]

\* llm.ainvoke returned the reply.
Replied(reply) == [raised |-> FALSE, reply |-> Some(reply)]

\* Well-formed output of each stage's LLM: a JSON object with the keys and the
\* value ranges the stage's prompt asks for.
WellFormed(n, reply) ==
    /\ reply.form = "json"
    /\ CASE n = "analyze_fields" -> reply.value = Some("dict")
         [] n = "match_entities" ->
              /\ reply.value[1].kind = "dict"
              /\ \/ reply.value[1].best_match = None
                 \/ /\ reply.value[1].best_match[1].entity_id /= None
                    /\ reply.value[1].best_match[1].similarity_score /= None
                    /\ reply.value[1].best_match[1].similarity_score[1] \in 0..100
         [] n = "normalize_schema" ->
              /\ reply.value[1].kind = "dict"
              /\ Truthy(reply.value[1].entity_name)
              /\ reply.value[1].source_schema_name /= None
              /\ ~SchemaIsEmpty(reply.value[1].canonical_schema)
              /\ ~FallbackRaises(reply.value[1].canonical_schema[1].fields[1])
         [] n = "generate_mappings" ->
              /\ reply.value[1].kind = "dict"
              /\ reply.value[1].field_mappings /= None
              /\ reply.value[1].field_mappings[1].islist
              /\ \A i \in 1..Len(reply.value[1].field_mappings[1].items) :
                    LET m == reply.value[1].field_mappings[1].items[i] IN
                    /\ Truthy(m.target_field)
                    /\ m.source_field /= None
                    /\ m.transformation /= None
                    /\ m.transformation[1] \in VALID_TRANSFORMATIONS
                    /\ m.confidence /= None
                    /\ m.confidence[1] \in 0..10

\* What the pipeline records of the outcome o of the LLM call of stage n.
Summary(n, o) ==
    [raised |-> o.raised,
     form |-> IF o.raised THEN "none" ELSE o.reply[1].form,
     wellformed |-> ~o.raised /\ WellFormed(n, o.reply[1])]

NoProbe == [fn |-> "none", arg |-> <<>>, out |-> <<>>, again |-> <<>>]

\* No analyze_schema call runs beside the one of the pipeline variables.
NoCalls ==
    /\ calls = <<>>
    /\ checkpoints = <<>>

\* The pipeline applies no repair function on its own and runs alone.
Aside == UNCHANGED << probe, calls, checkpoints >>

Init ==
    /\ request \in Requests
    /\ final_response_kept \in BOOLEAN
    /\ state = InitialState(request)
    /\ pending = { EntryPoint }
    /\ inflight = {}
    /\ runs = [n \in NodeSet |-> 0]
    /\ completions = [n \in NodeSet |-> 0]
    /\ llm_clients = 0
    /\ llm_calls = 0
    /\ phase = "running"
    /\ exc = None
    /\ returned = NotReturned
    /\ log = [n \in LLMNodes |-> None]
    /\ probe = NoProbe
    /\ NoCalls

\* The runtime starts node n.
Started(n) ==
    /\ phase = "running"
    /\ n \in pending
    /\ runs' = [runs EXCEPT ![n] = @ + 1]

\* Completed that runs the node once more when it left an error in the state.
Completed_RetriesOnError(n) ==
    /\ completions' = [completions EXCEPT ![n] = @ + 1]
    /\ pending' = (pending \ {n})
                  \cup (IF state'.error /= None /\ runs[n] < 2 /\ n \in LLMNodes
                        THEN {n} ELSE Successors(n))
    /\ inflight' = inflight \ {n}
    /\ UNCHANGED << phase, exc >>

\* Node n returns its state; the runtime triggers its successors.
Completed(n) ==
    /\ completions' = [completions EXCEPT ![n] = @ + 1]
    /\ pending' = (pending \ {n}) \cup Successors(n)
    /\ inflight' = inflight \ {n}
    /\ UNCHANGED << phase, exc >>

\* An exception escapes node n and graph.ainvoke raises it.
Escapes(n, cause) ==
    /\ phase' = "raised"
    /\ exc' = Some(cause)
    /\ pending' = pending \ {n}
    /\ inflight' = inflight \ {n}
    /\ UNCHANGED completions

\* Node n has built its client and prompt and awaits llm.ainvoke.
Awaits(n) ==
    /\ pending' = pending \ {n}
    /\ inflight' = inflight \cup {n}
    /\ llm_calls' = llm_calls + 1
    /\ UNCHANGED << completions, phase, exc >>

\* llm.ainvoke of node n ends with the outcome o and the node goes on.
Resumed(n, o) ==
    /\ phase = "running"
    /\ n \in inflight
    /\ log' = [log EXCEPT ![n] = Some(Summary(n, o))]
    /\ UNCHANGED << runs, llm_clients, llm_calls >>

StartAnalyzeFields ==
    /\ Started("analyze_fields")
    /\ llm_clients' = llm_clients + 1
    /\ Awaits("analyze_fields")
    /\ UNCHANGED << request, final_response_kept, state, returned >>
    /\ UNCHANGED log
    /\ Aside

AnalyzeFieldsLLMFails ==
    /\ Resumed("analyze_fields", Raised)
    /\ state' = AnalyzeFieldsFailed(state, LLMError)
    /\ Completed("analyze_fields")
    /\ UNCHANGED << request, final_response_kept, returned >>
    /\ Aside

AnalyzeFieldsLLMReplies ==
    /\ \E reply \in FieldAnalysisReplies :
          /\ Resumed("analyze_fields", Replied(reply))
          /\ state' = AnalyzeFieldsReturn(state, reply)
    /\ Completed("analyze_fields")
    /\ UNCHANGED << request, final_response_kept, returned >>
    /\ Aside

SkipMatchEntities ==
    /\ Started("match_entities")
    /\ state.existing_entities = <<>>
    /\ state' = MatchSkip(state)
    /\ Completed("match_entities")
    /\ UNCHANGED << request, final_response_kept, llm_clients, llm_calls, returned >>
    /\ UNCHANGED log
    /\ Aside

StartMatchEntities ==
    /\ Started("match_entities")
    /\ state.existing_entities /= <<>>
    /\ llm_clients' = llm_clients + 1
    /\ IF MatchPromptError(state) /= None
       THEN Escapes("match_entities", MatchPromptError(state)[1])
            /\ UNCHANGED llm_calls
       ELSE Awaits("match_entities")
    /\ UNCHANGED << request, final_response_kept, state, returned >>
    /\ UNCHANGED log
    /\ Aside

MatchEntitiesLLMFails ==
    /\ Resumed("match_entities", Raised)
    /\ state' = MatchEntitiesFailed(state, LLMError)
    /\ Completed("match_entities")
    /\ UNCHANGED << request, final_response_kept, returned >>
    /\ Aside

MatchEntitiesLLMReplies ==
    /\ \E reply \in MatchReplies :
          /\ Resumed("match_entities", Replied(reply))
          /\ state' = MatchEntitiesReturn(state, reply)
    /\ Completed("match_entities")
    /\ UNCHANGED << request, final_response_kept, returned >>
    /\ Aside

StartNormalizeSchema ==
    /\ Started("normalize_schema")
    /\ llm_clients' = llm_clients + 1
    /\ IF NormPromptError(state) /= None
       THEN Escapes("normalize_schema", NormPromptError(state)[1])
            /\ UNCHANGED llm_calls
       ELSE Awaits("normalize_schema")
    /\ UNCHANGED << request, final_response_kept, state, returned >>
    /\ UNCHANGED log
    /\ Aside

NormalizeLLMFails ==
    /\ Resumed("normalize_schema", Raised)
    /\ state' = NormalizeFailed(state, LLMError)
    /\ Completed("normalize_schema")
    /\ UNCHANGED << request, final_response_kept, returned >>
    /\ Aside

NormalizeLLMReplies ==
    /\ \E reply \in NormReplies :
          /\ Resumed("normalize_schema", Replied(reply))
          /\ state' = NormalizeReturn(state, reply)
    /\ Completed("normalize_schema")
    /\ UNCHANGED << request, final_response_kept, returned >>
    /\ Aside

StartGenerateMappings ==
    /\ Started("generate_mappings")
    /\ llm_clients' = llm_clients + 1
    /\ IF MappingPromptError(state) /= None
       THEN Escapes("generate_mappings", MappingPromptError(state)[1])
            /\ UNCHANGED llm_calls
       ELSE Awaits("generate_mappings")
    /\ UNCHANGED << request, final_response_kept, state, returned >>
    /\ UNCHANGED log
    /\ Aside

\* The stage ends with the outcome out: it returns, or its exception escapes.
Ends(n, out) ==
    /\ state' = out.state
    /\ IF out.raised THEN Escapes(n, out.cause) ELSE Completed(n)

GenerateMappingsLLMFails ==
    /\ Resumed("generate_mappings", Raised)
    /\ Ends("generate_mappings", GenerateMappingsFailed(state, LLMError))
    /\ UNCHANGED << request, final_response_kept, returned >>
    /\ Aside

GenerateMappingsLLMReplies ==
    /\ \E reply \in MappingReplies :
          /\ Resumed("generate_mappings", Replied(reply))
          /\ Ends("generate_mappings", GenerateMappingsReturn(state, reply))
    /\ UNCHANGED << request, final_response_kept, returned >>
    /\ Aside

RunPrepareResponse ==
    /\ Started("prepare_response")
    /\ state' = PrepareResponse(state)
    /\ Completed("prepare_response")
    /\ UNCHANGED << request, final_response_kept, llm_clients, llm_calls, returned >>
    /\ UNCHANGED log
    /\ Aside

\* final_state as graph.ainvoke returns it.
FinalState ==
    IF final_response_kept THEN state ELSE [state EXCEPT !.final_response = None]

AnalyzeSchemaReturns ==
    /\ phase = "running"
    /\ pending = {}
    /\ inflight = {}
    /\ returned' = ExtractResponse(request, FinalState)
    /\ phase' = "done"
    /\ UNCHANGED << request, final_response_kept, state, pending, inflight, runs,
                    completions, llm_clients, llm_calls, exc >>
    /\ UNCHANGED log
    /\ Aside

AnalyzeSchemaCatches ==
    /\ phase = "raised"
    /\ returned' = OnPipelineException(request, exc[1])
    /\ phase' = "done"
    /\ UNCHANGED << request, final_response_kept, state, pending, inflight, runs,
                    completions, llm_clients, llm_calls, exc >>
    /\ UNCHANGED log
    /\ Aside

Next ==
    \/ StartAnalyzeFields
    \/ AnalyzeFieldsLLMFails
    \/ AnalyzeFieldsLLMReplies
    \/ SkipMatchEntities
    \/ StartMatchEntities
    \/ MatchEntitiesLLMFails
    \/ MatchEntitiesLLMReplies
    \/ StartNormalizeSchema
    \/ NormalizeLLMFails
    \/ NormalizeLLMReplies
    \/ StartGenerateMappings
    \/ GenerateMappingsLLMFails
    \/ GenerateMappingsLLMReplies
    \/ RunPrepareResponse
    \/ AnalyzeSchemaReturns
    \/ AnalyzeSchemaCatches

Spec == Init /\ [][Next]_vars

\* ------------------------------------------------------------------- claims

Done == phase = "done"

Answer == returned.response[1]

CatalogueIds == { request.existing_entities[i].id : i \in 1..Len(request.existing_entities) }

C2_SkipLeavesDecisionUntouched ==
    [][ (runs["match_entities"] = 0 /\ runs'["match_entities"] = 1
         /\ state.existing_entities = <<>>) =>
            /\ llm_calls' = llm_calls
            /\ llm_clients' = llm_clients
            /\ state'.entity_match_results =
                 Some([kind |-> "dict", best_match |-> None,
                       should_create_new |-> Some(TRUE),
                       reason |-> Some("No existing canonical entities in the system")])
            /\ state'.processing_history =
                 Append(state.processing_history, "entity_matching_skipped")
            /\ state'.action = state.action
            /\ state'.entity_id = state.entity_id
            /\ state'.similarity_score = state.similarity_score
            /\ state'.error = state.error
            /\ completions'["match_entities"] = 1 ]_vars

C2_Witness ==
    /\ state.existing_entities = <<>>
    /\ completions["match_entities"] = 1
    /\ llm_calls = 1
    /\ state.error /= None

\* The matcher has stored a parsed result for a non-empty catalogue.
MatcherDecided ==
    /\ request.existing_entities /= <<>>
    /\ completions["match_entities"] = 1
    /\ state.entity_match_results /= None
    /\ state.entity_match_results[1].kind = "dict"

DecisionIs(maps) ==
    LET bm == state.entity_match_results[1].best_match IN
    IF maps
    THEN /\ state.action = Some("map_to_existing")
         /\ state.entity_id = bm[1].entity_id
         /\ state.similarity_score = bm[1].similarity_score
    ELSE /\ state.action = Some("create_new")
         /\ state.entity_id = None
         /\ state.similarity_score = None

ScoreReaches75 ==
    LET bm == state.entity_match_results[1].best_match IN
    /\ bm /= None
    /\ bm[1].similarity_score /= None
    /\ bm[1].similarity_score[1] >= 75

\* C3 as stated: with a parsed result, the matcher maps to the existing entity
\* exactly when best_match is present and its similarity_score is at least 75,
\* and creates a new entity with entity_id and similarity_score absent
\* otherwise.
C3_MapsExactlyWhenScoreReaches75 ==
    MatcherDecided => DecisionIs(ScoreReaches75)

\* C3 amended: the matcher maps to the existing entity exactly when best_match
\* is present, carries an entity_id and has a similarity_score of at least 75
\* (75 maps, 74 does not); otherwise it creates a new entity with entity_id and
\* similarity_score absent, whatever should_create_new says.
C3_MapsExactlyWhenScoreReaches75AndIdPresent ==
    MatcherDecided =>
        DecisionIs(ScoreReaches75
                   /\ state.entity_match_results[1].best_match[1].entity_id /= None)

C3_Witness ==
    /\ MatcherDecided
    /\ state.entity_match_results[1].should_create_new = Some(TRUE)
    /\ state.entity_match_results[1].best_match = Some(BestMatch(Some(1), Some(75)))
    /\ state.action = Some("map_to_existing")

\* C4: when the catalogue holds entity 1 and the matcher's LLM result has
\* best_match entity 1 with score 90, the returned response maps to entity 1
\* with similarity_score 90, whatever the other stages did.
C4_Score90MapsToEntity1 ==
    (/\ Done
     /\ 1 \in CatalogueIds
     /\ state.entity_match_results /= None
     /\ state.entity_match_results[1].best_match = Some(BestMatch(Some(1), Some(90)))) =>
        /\ returned.kind = "response"
        /\ Answer.action = Some("map_to_existing")
        /\ Answer.entity_id = Some(1)
        /\ Answer.similarity_score = Some(90)

\* C5: in every run of analyze_schema each of the five stages runs to
\* completion exactly once, also after a stage recorded a failure.
C5_EveryStageCompletesOnce ==
    Done => \A n \in NodeSet : runs[n] = 1 /\ completions[n] = 1

\* C6: the stages start in the order analyze_fields, match_entities,
\* normalize_schema, generate_mappings, prepare_response, none before its
\* predecessors have completed, and at most one stage awaits an LLM call.
C6_StagesRunStrictlyInSequence ==
    /\ Cardinality(inflight) <= 1
    /\ \A j \in 1..5 : \A i \in 1..(j-1) :
          runs[Nodes[j]] > 0 => (completions[Nodes[i]] = 1 /\ Nodes[i] \notin inflight)
    /\ \A n \in NodeSet : runs[n] <= 1

C6_Witness ==
    /\ inflight = { "generate_mappings" }
    /\ completions["normalize_schema"] = 1

\* The minimal error response, written out from the raw request.
MinimalResponse(cause) ==
    LET df == request.incoming_schema.detected_fields IN
    [action |-> Some("create_new"),
     entity_id |-> None,
     entity_name |-> Some("DataEntity"),
     source_schema_name |-> Some(<<request.incoming_schema.name>>),
     similarity_score |-> None,
     reasoning |-> Some(<<"Fallback response due to error: ", cause>>),
     canonical_schema |->
        Some([fields |-> Some([i \in 1..Len(df) |->
                 [name |-> df[i].name, type |-> df[i].type,
                  required |-> df[i].required]])]),
     field_mappings |->
        Some([i \in 1..Len(df) |->
                 [source_field |-> Some(df[i].name), target_field |-> Some(df[i].name),
                  transformation |-> Some("direct"),
                  jsonata_formula |-> Some(df[i].name), confidence |-> Some(5),
                  explanation |-> Some("Fallback direct mapping due to processing error")]])]

\* C7: analyze_schema always returns a response and never lets an exception
\* through; when the pipeline raised, the response is the minimal error
\* response built from the raw request, its reasoning naming the cause.
C7_PipelineExceptionBecomesMinimalResponse ==
    Done =>
        /\ returned.kind = "response"
        /\ exc /= None => Answer = MinimalResponse(exc[1])

C7_Witness ==
    /\ Done
    /\ exc /= None
    /\ Len(request.incoming_schema.detected_fields) = 2
    /\ returned.kind = "response"

C9_ReturnedResponseIsStructurallyValid ==
    (Done /\ returned.kind = "response") =>
        /\ Answer.action \in { Some("map_to_existing"), Some("create_new") }
        /\ \/ Answer.similarity_score = None
           \/ Answer.similarity_score[1] \in 0..100
        /\ \A i \in 1..Len(Answer.field_mappings[1]) :
              /\ Answer.field_mappings[1][i].confidence /= None
              /\ Answer.field_mappings[1][i].confidence[1] \in 0..10

\* C10: when the incoming schema has a detected field, the response that
\* response assembly produces has a canonical_schema with a non-empty fields
\* list, for every state the earlier stages leave behind.
C10_AssembledSchemaHasFields ==
    (/\ state.final_response /= None
     /\ Len(request.incoming_schema.detected_fields) >= 1) =>
        LET cs == state.final_response[1].canonical_schema IN
        /\ cs /= None
        /\ cs[1].fields /= None
        /\ Len(cs[1].fields[1]) >= 1

\* ------------------------------------------- repair functions on their own

MaxProbeLen == 2

\* Candidate mappings handed to _validate_response: those an LLM may list,
\* and one without the key target_field.
ResponseMappingChoices ==
    MappingChoices
    \cup { Mapping(Some("email"), None, Some("direct"), Some("email"), Some(6),
                   Some("no target key")) }

ResponseMappingLists ==
    UNION { [1..n -> ResponseMappingChoices] : n \in 0..MaxProbeLen }

\* The response dict and the state _validate_response is called with.
ValidateResponseArgs ==
    { [response |->
         [action |-> Some("create_new"), entity_id |-> None,
          entity_name |-> texts.entity_name,
          source_schema_name |-> texts.source_schema_name,
          similarity_score |-> None,
          reasoning |-> texts.reasoning,
          canonical_schema |-> cs,
          field_mappings |-> fm],
       state |-> [InitialState(r) EXCEPT !.normalization_suggestions = ns]] :
        texts \in { [entity_name |-> None, source_schema_name |-> None,
                     reasoning |-> None],
                    [entity_name |-> Some(""), source_schema_name |-> Some(Text("")),
                     reasoning |-> Some(Text(""))],
                    [entity_name |-> Some("Customer"),
                     source_schema_name |-> Some(Text("crm_contacts")),
                     reasoning |-> Some(Text("split the composite fields"))] },
        cs \in CanonicalChoices,
        fm \in { None } \cup { Some(l) : l \in ResponseMappingLists },
        ns \in { None, Some(NormList) }
               \cup { Some(NormDict(Some("Customer"), None, c, None)) :
                        c \in CanonicalChoices },
        r \in { q \in Requests : q.existing_entities = <<>>
                                 /\ Len(q.incoming_schema.detected_fields) = 2 } }

\* Transformation values an LLM may write, None for a mapping without the key.
TransformationChoices ==
    { Some(t) : t \in VALID_TRANSFORMATIONS }
    \cup { Some(t) : t \in { "extract", "uppercase", "lowercase", "trim", "parse",
                             "unix_to_datetime", "date_format", "concat",
                             "concatenate", "merge", "join" } }
    \cup { Some("CONCAT"), Some("Direct"), Some("Trim"), Some("timestamp_now"),
           Some(NonString), None }

\* The list _validate_mappings is called with.
ValidateMappingsArgs ==
    LET choices ==
          { Mapping(Some("email"), Some("email"), t, Some("$lowercase(email)"),
                    Some(9), Some("from the LLM")) : t \in TransformationChoices }
          \cup { Mapping(None, Some("phone_number"), None, None, None, None),
                 Mapping(Some("email"), Some("created_at"), Some("Direct"), None,
                         Some(7), None),
                 Mapping(None, Some("created_at"), Some("constant"), None, None, None),
                 Mapping(Some("phonenumber"), Some(""), Some("direct"), None, None,
                         None) }
    IN UNION { [1..n -> choices] : n \in 0..MaxProbeLen }

\* The source fields and the target fields _generate_fallback_mappings is
\* called with.
FallbackArgs ==
    LET sources == DetectedFieldChoices
                   \cup { << Field("phone_number", "string", FALSE),
                             Field("phonenumber", "string", FALSE) >>,
                          << Field("createdat", "string", FALSE),
                             Field("email", "string", TRUE) >> }
        targets == { Field("email", "string", TRUE),
                     Field("phone_number", "string", FALSE),
                     Field("created_at", "datetime", FALSE),
                     Field("first_name", "string", FALSE) }
    IN { [source_fields |-> s, target_fields |-> t] :
           s \in sources, t \in UNION { [1..n -> targets] : n \in 0..MaxProbeLen } }

\* The incoming schema and the error text _create_error_response is called
\* with.
ErrorResponseArgs ==
    { [incoming_schema |-> r.incoming_schema, error |-> e] :
        r \in Requests, e \in { LLMError, JSONDecodeError, NoneTypeHasNoGet } }

\* A repair function about to be called with an argument.
Probe(fn, arg) == [fn |-> fn, arg |-> arg, out |-> None, again |-> None]

\* The pipeline variables of a workflow that is not run.
NoWorkflow ==
    /\ request = CHOOSE r \in Requests : r.existing_entities = <<>>
                                         /\ r.incoming_schema.detected_fields = <<>>
    /\ state = InitialState(request)
    /\ pending = {}
    /\ inflight = {}
    /\ runs = [n \in NodeSet |-> 0]
    /\ completions = [n \in NodeSet |-> 0]
    /\ llm_clients = 0
    /\ llm_calls = 0
    /\ phase = "idle"
    /\ exc = None
    /\ returned = NotReturned
    /\ log = [n \in LLMNodes |-> None]

InitRepair ==
    /\ NoWorkflow
    /\ final_response_kept = FALSE
    /\ NoCalls
    /\ probe \in { Probe("_validate_response", a) : a \in ValidateResponseArgs }
                 \cup { Probe("_validate_mappings", a) : a \in ValidateMappingsArgs }
                 \cup { Probe("_generate_fallback_mappings", a) : a \in FallbackArgs }
                 \cup { Probe("_create_error_response", a) : a \in ErrorResponseArgs }

Calls(fn) ==
    /\ probe.fn = fn
    /\ probe.out = None
    /\ UNCHANGED << request, final_response_kept, state, pending, inflight, runs,
                    completions, llm_clients, llm_calls, phase, exc, returned, log,
                    calls, checkpoints >>

\* The function is called on what its first call returned.
CallsAgain(fn) ==
    /\ probe.fn = fn
    /\ probe.out /= None
    /\ ~probe.out[1].raised
    /\ probe.again = None
    /\ UNCHANGED << request, final_response_kept, state, pending, inflight, runs,
                    completions, llm_clients, llm_calls, phase, exc, returned, log,
                    calls, checkpoints >>

CallValidateResponse ==
    /\ Calls("_validate_response")
    /\ probe' = [probe EXCEPT
                   !.out = Some(ValidateResponse(probe.arg.response, probe.arg.state))]

RecallValidateResponse ==
    /\ CallsAgain("_validate_response")
    /\ probe' = [probe EXCEPT
                   !.again = Some(ValidateResponse(probe.out[1].value[1],
                                                   probe.arg.state))]

CallValidateMappings ==
    /\ Calls("_validate_mappings")
    /\ probe' = [probe EXCEPT !.out = Some(ValidateMappings(probe.arg))]

RecallValidateMappings ==
    /\ CallsAgain("_validate_mappings")
    /\ probe' = [probe EXCEPT !.again = Some(ValidateMappings(probe.out[1].value))]

CallGenerateFallbackMappings ==
    /\ Calls("_generate_fallback_mappings")
    /\ probe' = [probe EXCEPT
                   !.out = Some([raised |-> FALSE, cause |-> "",
                                 value |-> GenerateFallbackMappings(
                                             probe.arg.source_fields,
                                             probe.arg.target_fields)])]

CallCreateErrorResponse ==
    /\ Calls("_create_error_response")
    /\ probe' = [probe EXCEPT
                   !.out = Some([raised |-> FALSE, cause |-> "",
                                 value |-> CreateErrorResponse(
                                             probe.arg.incoming_schema,
                                             probe.arg.error)])]

NextRepair ==
    \/ CallValidateResponse
    \/ RecallValidateResponse
    \/ CallValidateMappings
    \/ RecallValidateMappings
    \/ CallGenerateFallbackMappings
    \/ CallCreateErrorResponse

SpecRepair == InitRepair /\ [][NextRepair]_vars

\* ----------------------------------------------------------- claims, C11 on

\* The repair function fn was called and returned.
ProbeReturned(fn) ==
    /\ probe.fn = fn
    /\ probe.out /= None
    /\ ~probe.out[1].raised

\* Positions of the candidates that have a non-empty target_field.
KeptIndices(cand) ==
    { i \in 1..Len(cand) : cand[i].target_field \notin { None, Some("") } }

\* Position of the k-th such candidate.
NthKept(cand, k) ==
    CHOOSE i \in KeptIndices(cand) :
        Cardinality({ j \in KeptIndices(cand) : j <= i }) = k

\* The output mapping m is the candidate c: same target, and every key the
\* candidate has keeps its value.
IsCandidate(m, c) ==
    /\ m.target_field = c.target_field
    /\ c.source_field /= None => m.source_field = c.source_field
    /\ c.transformation /= None => m.transformation = c.transformation
    /\ c.jsonata_formula /= None => m.jsonata_formula = c.jsonata_formula
    /\ c.confidence /= None => m.confidence = c.confidence
    /\ c.explanation /= None => m.explanation = c.explanation

\* The candidate list of the response _validate_response was called with: the
\* empty list when field_mappings is not a list.
Candidates == IF probe.arg.response.field_mappings = None THEN <<>>
              ELSE probe.arg.response.field_mappings[1]

\* C11: the field_mappings _validate_response returns are exactly the
\* candidates with a non-empty target_field, in their original relative
\* order, none added and no other dropped; a field_mappings value that is not
\* a list gives the empty list.
C11_ValidateResponseKeepsExactlyTargetedMappings ==
    ProbeReturned("_validate_response") =>
        LET result == probe.out[1].value[1].field_mappings IN
        /\ result /= None
        /\ Len(result[1]) = Cardinality(KeptIndices(Candidates))
        /\ \A k \in 1..Len(result[1]) :
              IsCandidate(result[1][k], Candidates[NthKept(Candidates, k)])

C11_Witness ==
    /\ ProbeReturned("_validate_response")
    /\ Len(Candidates) = 2
    /\ KeptIndices(Candidates) = { 2 }
    /\ Len(probe.out[1].value[1].field_mappings[1]) = 1

\* C12: both repair passes are idempotent: _validate_response called on the
\* response it returned, with the same state, returns that response again, and
\* _validate_mappings called on the list it returned returns that list again.
C12_RepairPassesAreIdempotent ==
    (probe.fn \in { "_validate_response", "_validate_mappings" }
     /\ probe.again /= None) =>
        /\ ~probe.again[1].raised
        /\ probe.again[1].value = probe.out[1].value

C12_Witness ==
    /\ probe.fn = "_validate_mappings"
    /\ probe.again /= None
    /\ Len(probe.arg) = 2
    /\ probe.out[1].value /= probe.arg
    /\ probe.again[1].value = probe.out[1].value

\* The mappings of the list _validate_mappings was called with that it keeps.
KeptMapping(k) == probe.arg[NthKept(probe.arg, k)]

\* The tag the synonym table gives a lower-cased transformation that is not
\* one of the six tags.
SynonymTag(t) ==
    IF t \in { "extract", "uppercase", "lowercase", "trim", "parse" } THEN "formula"
    ELSE IF t \in { "unix_to_datetime", "date_format" } THEN "format_conversion"
    ELSE IF t \in { "concat", "concatenate", "merge", "join" } THEN "combine"
    ELSE "formula"

\* C13: _validate_mappings lower-cases the transformation of each mapping it
\* keeps; a value that is then one of the six tags is kept, any other value is
\* replaced through the synonym table, by "formula" when the table has no
\* entry for it.
C13_TransformationsAreNormalised ==
    ProbeReturned("_validate_mappings") =>
        \A k \in 1..Len(probe.out[1].value) :
            KeptMapping(k).transformation /= None =>
                LET t == Lower(KeptMapping(k).transformation[1]) IN
                probe.out[1].value[k].transformation =
                    Some(IF t \in { "direct", "formula", "split", "combine",
                                    "format_conversion", "constant" }
                         THEN t ELSE SynonymTag(t))

C13_Witness ==
    /\ ProbeReturned("_validate_mappings")
    /\ Len(probe.out[1].value) = 2
    /\ probe.arg[1].transformation = Some("CONCAT")
    /\ probe.out[1].value[1].transformation = Some("combine")
    /\ probe.arg[2].transformation = Some("timestamp_now")
    /\ probe.out[1].value[2].transformation = Some("formula")

SourceNames ==
    { probe.arg.source_fields[i].name : i \in 1..Len(probe.arg.source_fields) }

\* C14: _generate_fallback_mappings returns one mapping per target field, in
\* the order of the target fields: direct with confidence 0.9 from the source
\* field of the same name when there is one, else direct with confidence 0.7
\* from the source field named like the target without its underscores when
\* there is one, else a constant with an empty source_field, the formula
\* "null" and confidence 0.5.
C14_FallbackMapsEveryTargetField ==
    ProbeReturned("_generate_fallback_mappings") =>
        LET targets == probe.arg.target_fields
            result == probe.out[1].value
        IN /\ Len(result) = Len(targets)
           /\ \A i \in 1..Len(targets) :
                LET name == targets[i].name
                    bare == StripUnderscores(name)
                    m == result[i]
                IN /\ m.target_field = Some(name)
                   /\ name \in SourceNames =>
                        /\ m.transformation = Some("direct")
                        /\ m.source_field = Some(name)
                        /\ m.confidence = Some(9)
                   /\ (name \notin SourceNames /\ bare \in SourceNames) =>
                        /\ m.transformation = Some("direct")
                        /\ m.source_field = Some(bare)
                        /\ m.confidence = Some(7)
                   /\ (name \notin SourceNames /\ bare \notin SourceNames) =>
                        /\ m.transformation = Some("constant")
                        /\ m.source_field = Some("")
                        /\ m.jsonata_formula = Some("null")
                        /\ m.confidence = Some(5)

C14_Witness ==
    /\ ProbeReturned("_generate_fallback_mappings")
    /\ SourceNames = { "email", "phonenumber" }
    /\ Len(probe.out[1].value) = 2
    /\ probe.out[1].value[1].source_field = Some("phonenumber")
    /\ probe.out[1].value[1].target_field = Some("phone_number")
    /\ probe.out[1].value[1].confidence = Some(7)
    /\ probe.out[1].value[2].transformation = Some("constant")

\* Number of fields of the canonical schema of the returned response.
AnswerFieldCount ==
    IF Answer.canonical_schema = None \/ Answer.canonical_schema[1].fields = None
    THEN 0 ELSE Len(Answer.canonical_schema[1].fields[1])

\* C15: in every response analyze_schema returns, field_mappings has at least
\* as many mappings as the response's canonical_schema has fields, also when
\* the Mapping Generator's LLM output is unparseable or lists fewer mappings.
C15_MappingsCoverCanonicalFields ==
    (Done /\ returned.kind = "response") =>
        /\ Answer.field_mappings /= None
        /\ Len(Answer.field_mappings[1]) >= AnswerFieldCount

\* C16: no LLM call is retried: no stage runs twice, the LLM calls of a
\* request are no more than its LLM stages that ran, hence at most four, and
\* at most three for an empty catalogue; failed calls count as well.
C16_NoLLMCallIsRetried ==
    /\ \A n \in NodeSet : runs[n] <= 1
    /\ llm_calls <= Cardinality({ n \in LLMNodes : runs[n] = 1 })
    /\ llm_calls <= 4
    /\ request.existing_entities = <<>> => llm_calls <= 3

C16_Witness ==
    /\ Done
    /\ llm_calls = 4
    /\ log["generate_mappings"] /= None
    /\ log["generate_mappings"][1].raised

\* ------------------------------------------------------------------ endpoint

\* FieldMapping(**m) validates: the required keys are strings, transformation
\* is one of the six tags or missing, confidence is within [0.0, 1.0].
IsFieldMapping(m) ==
    /\ m.source_field /= None
    /\ m.target_field /= None
    /\ m.transformation = None \/ m.transformation[1] \in VALID_TRANSFORMATIONS
    /\ m.confidence /= None
    /\ m.confidence[1] \in 0..10
    /\ m.explanation /= None

\* SchemaAnalysisResponse(**r) validates.
IsSchemaAnalysisResponse(r) ==
    /\ r.action \in { Some("map_to_existing"), Some("create_new") }
    /\ r.entity_name /= None
    /\ r.source_schema_name /= None
    /\ r.similarity_score = None \/ r.similarity_score[1] \in 0..100
    /\ r.reasoning /= None
    /\ r.canonical_schema /= None
    /\ r.canonical_schema[1].fields /= None
    /\ \A i \in 1..Len(r.canonical_schema[1].fields[1]) :
          r.canonical_schema[1].fields[1][i].name /= NoName
    /\ r.field_mappings /= None
    /\ \A i \in 1..Len(r.field_mappings[1]) : IsFieldMapping(r.field_mappings[1][i])

\* The status analyze_schema_endpoint answers with, given what analyze_schema
\* handed back: any exception, that of the validation included, becomes
\* HTTPException(status_code=500).
StatusCode(result) ==
    IF result.kind = "response" /\ IsSchemaAnalysisResponse(result.response[1])
    THEN 200 ELSE 500

\* ------------------------------------------------------ claims, C17 onwards

\* The stages whose LLM call raised.
FailedCalls == { n \in LLMNodes : log[n] /= None /\ log[n][1].raised }

\* Exactly one LLM call raised and every other call made returned well-formed
\* output.
OneCallFailed ==
    /\ Cardinality(FailedCalls) = 1
    /\ \A n \in LLMNodes \ FailedCalls :
          log[n] /= None => log[n][1].wellformed

Finishes(n) == n \in inflight /\ n \notin inflight'

\* The outcome of the LLM call the step records for stage n.
Outcome(n) == log'[n][1]

\* An exception is raised in match_entities past the short-circuit: while it
\* builds the prompt, by the LLM call, or by the try-body on the result it
\* parsed and stored (no JSON object, or a best_match that reaches the
\* threshold and has no entity_id).
MatcherRaises ==
    \/ /\ runs'["match_entities"] = runs["match_entities"] + 1
       /\ state.existing_entities /= <<>>
       /\ phase' = "raised"
    \/ /\ Finishes("match_entities")
       /\ \/ Outcome("match_entities").raised
          \/ LET results == state'.entity_match_results[1] IN
             \/ results.kind /= "dict"
             \/ /\ results.best_match /= None
                /\ results.best_match[1].similarity_score /= None
                /\ results.best_match[1].similarity_score[1] >= 75
                /\ results.best_match[1].entity_id = None

\* C19: when anything raises in match_entities after the short-circuit check,
\* the stage ends with error = "Entity matching failed: <cause>", action
\* "create_new", no entity_id and no similarity_score, and
\* "entity_matching_failed" appended to processing_history; action is never
\* left as "map_to_existing".
C19_MatcherFailureFallsBackToCreateNew ==
    [][ MatcherRaises =>
            /\ completions'["match_entities"] = 1
            /\ state'.error /= None
            /\ state'.error[1][1] = "Entity matching failed: "
            /\ state'.action = Some("create_new")
            /\ state'.entity_id = None
            /\ state'.similarity_score = None
            /\ state'.processing_history =
                 Append(state.processing_history, "entity_matching_failed") ]_vars

\* C20: when the LLM call of analyze_fields raises or its reply is not valid
\* JSON, the stage sets error to "Field analysis failed: <cause>" and changes
\* nothing else: field_analysis stays absent and processing_history gets no
\* tag.
C20_FieldAnalysisFailureSetsOnlyError ==
    [][ (/\ Finishes("analyze_fields")
         /\ \/ Outcome("analyze_fields").raised
            \/ Outcome("analyze_fields").form /= "json") =>
            /\ state'.error /= None
            /\ state'.error[1][1] = "Field analysis failed: "
            /\ [state' EXCEPT !.error = state.error] = state
            /\ state'.field_analysis = None
            /\ state'.processing_history = <<>> ]_vars

C20_Witness ==
    /\ completions["analyze_fields"] = 1
    /\ log["analyze_fields"] /= None
    /\ log["analyze_fields"][1].form = "garbage"
    /\ state.error = Some(<<"Field analysis failed: ", JSONDecodeError>>)
    /\ state.field_analysis = None
    /\ state.processing_history = <<>>

\* -------------------------------------------------------- concurrent requests

\* What node n does with the state s up to its LLM call: it awaits the call,
\* returns without one, or raises while it builds its prompt.
NodeStarts(n, s) ==
    LET awaits == [kind |-> "awaits", state |-> s, cause |-> ""]
        returns(t) == [kind |-> "returns", state |-> t, cause |-> ""]
        raises(c) == [kind |-> "raises", state |-> s, cause |-> c[1]]
    IN CASE n = "analyze_fields" -> awaits
         [] n = "match_entities" ->
              IF s.existing_entities = <<>> THEN returns(MatchSkip(s))
              ELSE IF MatchPromptError(s) /= None THEN raises(MatchPromptError(s))
              ELSE awaits
         [] n = "normalize_schema" ->
              IF NormPromptError(s) /= None THEN raises(NormPromptError(s))
              ELSE awaits
         [] n = "generate_mappings" ->
              IF MappingPromptError(s) /= None THEN raises(MappingPromptError(s))
              ELSE awaits
         [] n = "prepare_response" -> returns(PrepareResponse(s))

\* The outcome of node n on the state s once its LLM call ended with o.
NodeResumes(n, s, o) ==
    CASE n = "analyze_fields" ->
           Returns(IF o.raised THEN AnalyzeFieldsFailed(s, LLMError)
                   ELSE AnalyzeFieldsReturn(s, o.reply[1]))
      [] n = "match_entities" ->
           Returns(IF o.raised THEN MatchEntitiesFailed(s, LLMError)
                   ELSE MatchEntitiesReturn(s, o.reply[1]))
      [] n = "normalize_schema" ->
           Returns(IF o.raised THEN NormalizeFailed(s, LLMError)
                   ELSE NormalizeReturn(s, o.reply[1]))
      [] n = "generate_mappings" ->
           IF o.raised THEN GenerateMappingsFailed(s, LLMError)
           ELSE GenerateMappingsReturn(s, o.reply[1])

RequestIds == { 1, 2 }

OtherHash == "0123456789abcdef"

\* The requests of two callers: the same schema, or schemas of another hash.
ConcurrentRequests ==
    { [r EXCEPT !.incoming_schema.hash = h] :
        r \in { q \in Requests : Len(q.incoming_schema.detected_fields) = 2 },
        h \in { SchemaHash, OtherHash } }

\* What the LLM of stage n does in the runs of two callers.
ConcurrentOutcomes(n) ==
    { Raised }
    \cup { Replied(reply) : reply \in
            CASE n = "analyze_fields" -> { Reply("json", Some("dict")) }
              [] n = "match_entities" ->
                   { Reply("json", Some(MatchDict(Some(BestMatch(Some(1), Some(s))),
                                                  Some(FALSE), Some("llm reason")))) :
                       s \in { 74, 90 } }
              [] n = "normalize_schema" ->
                   { Reply("json", Some(NormDict(Some("Customer"),
                                                 Some(Text("crm_contacts")), cs,
                                                 Some(Text("split the composite fields"))))) :
                       cs \in { c \in CanonicalChoices : ~SchemaIsEmpty(c) } }
              [] n = "generate_mappings" ->
                   { Reply("json", Some(MappingsDict(Some(MappingsList(l))))) :
                       l \in { m \in MappingLists : Len(m) = 1 } } }

\* SaverOf for a graph compiled once, whose MemorySaver every call shares.
SaverOf_Shared(r) == 0

\* The MemorySaver of the graph that analyze_schema compiles for request r:
\* each call creates its own.
SaverOf(r) == r

\* thread_id of the run of request r.
ThreadOf(r) == calls[r].request.incoming_schema.hash

\* The workflow state of the run of request r, held under its thread id.
Checkpoint(r) == checkpoints[<< SaverOf(r), ThreadOf(r) >>][1]

Saves(r, s) ==
    checkpoints' = [checkpoints EXCEPT ![<< SaverOf(r), ThreadOf(r) >>] = Some(s)]

\* An analyze_schema call that has not reached graph.ainvoke.
Called(req) ==
    [request |-> req, pending |-> {}, inflight |-> {}, phase |-> "called",
     exc |-> None, returned |-> NotReturned, log |-> [n \in LLMNodes |-> None]]

InitConcurrent ==
    /\ NoWorkflow
    /\ final_response_kept \in BOOLEAN
    /\ probe = NoProbe
    /\ calls \in { [r \in RequestIds |-> Called(IF r = 1 THEN a ELSE b)] :
                     a \in { q \in ConcurrentRequests :
                               q.incoming_schema.hash = SchemaHash },
                     b \in ConcurrentRequests }
    /\ checkpoints = [k \in { SaverOf(r) : r \in RequestIds }
                             \X { SchemaHash, OtherHash } |-> None]

\* Only the call of request r and the checkpoints change.
OnlyCall(r, call) ==
    /\ calls' = [calls EXCEPT ![r] = call]
    /\ UNCHANGED << request, final_response_kept, state, pending, inflight, runs,
                    completions, llm_clients, llm_calls, phase, exc, returned, log,
                    probe >>

\* graph.ainvoke(initial_state, config) of request r.
InvokeGraph(r) ==
    /\ calls[r].phase = "called"
    /\ Saves(r, InitialState(calls[r].request))
    /\ OnlyCall(r, [calls[r] EXCEPT !.phase = "running", !.pending = { EntryPoint }])

\* A node of the run of request r starts and goes up to its LLM call.
StartNode(r) ==
    /\ calls[r].phase = "running"
    /\ \E n \in calls[r].pending :
         LET start == NodeStarts(n, Checkpoint(r))
             call == [calls[r] EXCEPT !.pending = @ \ {n}]
         IN CASE start.kind = "awaits" ->
                   /\ UNCHANGED checkpoints
                   /\ OnlyCall(r, [call EXCEPT !.inflight = @ \cup {n}])
              [] start.kind = "returns" ->
                   /\ Saves(r, start.state)
                   /\ OnlyCall(r, [call EXCEPT !.pending = @ \cup Successors(n)])
              [] start.kind = "raises" ->
                   /\ UNCHANGED checkpoints
                   /\ OnlyCall(r, [call EXCEPT !.phase = "raised",
                                              !.exc = Some(start.cause)])

\* The LLM call of a node of the run of request r ends and the node goes on.
ResumeNode(r) ==
    /\ calls[r].phase = "running"
    /\ \E n \in calls[r].inflight : \E o \in ConcurrentOutcomes(n) :
         LET out == NodeResumes(n, Checkpoint(r), o)
             call == [calls[r] EXCEPT !.inflight = @ \ {n}, !.log[n] = Some(o)]
         IN /\ Saves(r, out.state)
            /\ IF out.raised
               THEN OnlyCall(r, [call EXCEPT !.phase = "raised",
                                            !.exc = Some(out.cause)])
               ELSE OnlyCall(r, [call EXCEPT !.pending = @ \cup Successors(n)])

\* graph.ainvoke of request r returns final_state and analyze_schema returns.
ReturnCall(r) ==
    /\ calls[r].phase = "running"
    /\ calls[r].pending = {}
    /\ calls[r].inflight = {}
    /\ LET fs == IF final_response_kept THEN Checkpoint(r)
                 ELSE [Checkpoint(r) EXCEPT !.final_response = None]
       IN OnlyCall(r, [calls[r] EXCEPT
                         !.phase = "done",
                         !.returned = ExtractResponse(calls[r].request, fs)])
    /\ UNCHANGED checkpoints

\* graph.ainvoke of request r raised and analyze_schema catches.
CatchCall(r) ==
    /\ calls[r].phase = "raised"
    /\ OnlyCall(r, [calls[r] EXCEPT
                      !.phase = "done",
                      !.returned = OnPipelineException(calls[r].request,
                                                       calls[r].exc[1])])
    /\ UNCHANGED checkpoints

NextConcurrent ==
    \/ \E r \in RequestIds : InvokeGraph(r)
    \/ \E r \in RequestIds : StartNode(r)
    \/ \E r \in RequestIds : ResumeNode(r)
    \/ \E r \in RequestIds : ReturnCall(r)
    \/ \E r \in RequestIds : CatchCall(r)

SpecConcurrent == InitConcurrent /\ [][NextConcurrent]_vars

\* ---------------------------------------------------------------- claim C18

\* The stages from the i-th on, run alone on the state s with the LLM outcomes
\* lg: the state the last one returns, or the exception that leaves the graph
\* (one that no run raises when lg lacks the outcome of a call).
RECURSIVE RunAlone(_, _, _)
RunAlone(i, s, lg) ==
    IF i > Len(Nodes) THEN Returns(s)
    ELSE LET start == NodeStarts(Nodes[i], s) IN
         CASE start.kind = "raises" -> Raises(s, start.cause)
           [] start.kind = "returns" -> RunAlone(i + 1, start.state, lg)
           [] start.kind = "awaits" ->
                IF lg[Nodes[i]] = None THEN Raises(s, "<LLM call that was not made>")
                ELSE LET out == NodeResumes(Nodes[i], s, lg[Nodes[i]][1]) IN
                     IF out.raised THEN out ELSE RunAlone(i + 1, out.state, lg)

\* What analyze_schema returns for the request req when it runs alone and its
\* stages' LLM calls end as lg tells.
ReturnedAlone(req, lg) ==
    LET out == RunAlone(1, InitialState(req), lg) IN
    IF out.raised THEN OnPipelineException(req, out.cause)
    ELSE ExtractResponse(req, IF final_response_kept THEN out.state
                              ELSE [out.state EXCEPT !.final_response = None])

\* C18: of two analyze_schema calls that run concurrently, in any interleaving
\* of their stages and also with the same schema hash as thread id, each
\* returns what it returns when it runs alone with the same request and the
\* same LLM outcomes of its own stages.
C18_ConcurrentRequestsDoNotInterfere ==
    \A r \in RequestIds :
        calls[r].phase = "done" =>
            calls[r].returned = ReturnedAlone(calls[r].request, calls[r].log)

C18_Witness ==
    /\ calls[1].phase = "done"
    /\ calls[2].phase = "done"
    /\ calls[1].request = calls[2].request
    /\ calls[1].log["normalize_schema"] /= None
    /\ calls[2].log["generate_mappings"] = Some(Raised)
    /\ calls[1].log["match_entities"] /= calls[2].log["match_entities"]
    /\ calls[1].returned.response[1].action = Some("map_to_existing")
    /\ calls[2].returned.response[1].action = Some("create_new")

\* ------------------------------------------------------ claims, C21 onwards

\* The step in which normalize_schema ends on one of its failure paths: the
\* LLM call raised, the reply is not valid JSON, or the parsed object lacks
\* entity_name, source_schema_name or canonical_schema.
NormalizerFails ==
    /\ Finishes("normalize_schema")
    /\ state'.error /= None
    /\ state'.error[1][1] = "Schema normalization failed: "
    /\ state'.error[1][2] \in { LLMError, JSONDecodeError, "'entity_name'",
                                "'source_schema_name'", "'canonical_schema'" }

\* C21: on every failure path of normalize_schema the only state field that
\* changes is error: normalization_suggestions, entity_name,
\* source_schema_name, canonical_schema, reasoning and processing_history stay
\* as they were.
C21_NormalizerFailureSetsOnlyError ==
    [][ NormalizerFails => [state' EXCEPT !.error = state.error] = state ]_vars

\* The fields of the canonical schema in the state s, none when it has no
\* fields key.
CanonicalFields(s) ==
    IF s.canonical_schema[1].fields = None THEN <<>>
    ELSE s.canonical_schema[1].fields[1]

\* C22: when the LLM call of generate_mappings raises, the stage sets error to
\* "Mapping generation failed: <cause>", sets field_mappings to what
\* _generate_fallback_mappings gives for the detected fields and the canonical
\* schema's fields, changes nothing else and returns normally, in every state
\* the earlier stages leave behind.
C22_MappingFailureFallsBack ==
    [][ (Finishes("generate_mappings") /\ Outcome("generate_mappings").raised) =>
            /\ phase' = "running"
            /\ completions'["generate_mappings"] = 1
            /\ state' = [state EXCEPT
                           !.error = Some(<<"Mapping generation failed: ", LLMError>>),
                           !.field_mappings =
                               Some(GenerateFallbackMappings(
                                      state.incoming_schema.detected_fields,
                                      CanonicalFields(state)))] ]_vars


\* The tag a failing stage would add to processing_history.
FailedTag(n) ==
    IF n = "match_entities" THEN "entity_matching_failed"
    ELSE "mapping_generation_failed"

\* The stage n handled a failure of its own: it returns with its error message.
StageFails(n) ==
    /\ Finishes(n)
    /\ phase' = "running"
    /\ state'.error /= None
    /\ state'.error[1][1] = IF n = "match_entities" THEN "Entity matching failed: "
                            ELSE "Mapping generation failed: "

\* C23: when the Entity Matcher or the Mapping Generator fails, the failing
\* stage appends its "*_failed" tag to processing_history:
\* "entity_matching_failed" for the matcher and the corresponding failed tag
\* for the Mapping Generator.
C23_FailingStageAppendsFailedTag ==
    [][ \A n \in {"match_entities", "generate_mappings"} :
          StageFails(n) =>
              state'.processing_history =
                  Append(state.processing_history, FailedTag(n)) ]_vars


\* C24: _create_error_response returns action "create_new" without entity_id
\* and similarity_score, entity_name "DataEntity", the incoming schema's name
\* as source_schema_name, a canonical schema with exactly one field per
\* detected field, in order, with that field's name, type and required, and
\* one direct mapping per detected field whose source_field, target_field and
\* jsonata_formula are the field's name, with confidence 0.5.
C24_ErrorResponseMirrorsDetectedFields ==
    ProbeReturned("_create_error_response") =>
        LET df == probe.arg.incoming_schema.detected_fields
            r == probe.out[1].value
        IN /\ r.action = Some("create_new")
           /\ r.entity_id = None
           /\ r.similarity_score = None
           /\ r.entity_name = Some("DataEntity")
           /\ r.source_schema_name = Some(<<probe.arg.incoming_schema.name>>)
           /\ r.canonical_schema /= None
           /\ r.canonical_schema[1].fields /= None
           /\ Len(r.canonical_schema[1].fields[1]) = Len(df)
           /\ r.field_mappings /= None
           /\ Len(r.field_mappings[1]) = Len(df)
           /\ \A i \in 1..Len(df) :
                LET f == r.canonical_schema[1].fields[1][i]
                    m == r.field_mappings[1][i]
                IN /\ f.name = df[i].name
                   /\ f.type = df[i].type
                   /\ f.required = df[i].required
                   /\ m.transformation = Some("direct")
                   /\ m.source_field = Some(df[i].name)
                   /\ m.target_field = Some(df[i].name)
                   /\ m.jsonata_formula = Some(df[i].name)
                   /\ m.confidence = Some(5)

C24_Witness ==
    /\ ProbeReturned("_create_error_response")
    /\ Len(probe.arg.incoming_schema.detected_fields) = 2
    /\ Len(probe.out[1].value.field_mappings[1]) = 2
    /\ probe.out[1].value.field_mappings[1][2].confidence = Some(5)
    /\ probe.out[1].value.reasoning =
         Some(<<"Fallback response due to error: ", JSONDecodeError>>)


\* C25: when the matcher's LLM returns text that is not JSON and holds no JSON
\* object, match_entities treats it as an absent best_match: action is
\* "create_new", entity_id and similarity_score are absent,
\* "entity_matching_completed" (not the failed tag) is appended and error is
\* not set.
C25_UnparseableMatchIsCreateNew ==
    [][ (Finishes("match_entities") /\ Outcome("match_entities").form = "garbage") =>
            /\ phase' = "running"
            /\ state' = [state EXCEPT
                           !.entity_match_results = Some(MatchDefault),
                           !.action = Some("create_new"),
                           !.entity_id = None,
                           !.similarity_score = None,
                           !.processing_history =
                               Append(@, "entity_matching_completed")]
            /\ state'.error = state.error ]_vars

C25_Witness ==
    /\ completions["match_entities"] = 1
    /\ completions["normalize_schema"] = 0
    /\ log["match_entities"] /= None
    /\ log["match_entities"][1].form = "garbage"
    /\ state.action = Some("create_new")
    /\ state.error = None
    /\ state.processing_history =
         <<"field_analysis_completed", "entity_matching_completed">>


\* The response is a minimal error response: its reasoning tells the error.
IsErrorResponse(r) ==
    /\ r.reasoning /= None
    /\ Len(r.reasoning[1]) = 2
    /\ r.reasoning[1][1] = "Fallback response due to error: "

\* C26: whenever prepare_response has run, final_response is populated, with
\* the validated response or with the minimal error response;
\* "response_prepared" is in processing_history only when it is the validated
\* response; and the value analyze_schema returns is this final_response.
C26_ReturnsPreparedFinalResponse ==
    completions["prepare_response"] = 1 =>
        /\ state.final_response /= None
        /\ IsErrorResponse(state.final_response[1]) <=>
               (\A i \in 1..Len(state.processing_history) :
                   state.processing_history[i] /= "response_prepared")
        /\ Done => returned = Response(state.final_response[1])


\* C27: whenever the returned response has action "map_to_existing", its
\* entity_id is the id of an entity of the request's catalogue.
C27_MappedEntityIsInCatalogue ==
    (Done /\ returned.kind = "response" /\ Answer.action = Some("map_to_existing")) =>
        /\ Answer.entity_id /= None
        /\ Answer.entity_id[1] \in CatalogueIds


\* C28: no stage and no repair step modifies the request inputs: in every
\* step the request stays what it is, and incoming_schema and
\* existing_entities of the state are the request's, up to the end and on
\* every path.
C28_RequestInputsAreNeverModified ==
    [][ /\ request' = request
        /\ state'.incoming_schema = request.incoming_schema
        /\ state'.existing_entities = request.existing_entities ]_vars

C28_Witness ==
    /\ Done
    /\ completions["prepare_response"] = 1
    /\ state.error /= None
    /\ state.final_response /= None
    /\ Len(request.incoming_schema.detected_fields) = 2
    /\ request.existing_entities /= <<>>
    /\ state.incoming_schema = request.incoming_schema
    /\ state.existing_entities = request.existing_entities


\* The decision fields of a state or of a response agree with each other.
DecisionIsConsistent(r) ==
    /\ r.action \in { None, Some("create_new") } =>
           /\ r.entity_id = None
           /\ r.similarity_score = None
    /\ r.action = Some("map_to_existing") =>
           /\ r.similarity_score /= None
           /\ r.similarity_score[1] >= 75

\* C29: in every reachable state and in every returned response, action
\* "create_new" (or no action) comes with entity_id and similarity_score
\* absent, and action "map_to_existing" comes with a similarity_score that is
\* present and at least 75.
C29_DecisionFieldsAgree ==
    /\ DecisionIsConsistent(state)
    /\ (Done /\ returned.kind = "response") => DecisionIsConsistent(Answer)

C29_Witness ==
    /\ Done
    /\ returned.kind = "response"
    /\ Answer.action = Some("map_to_existing")
    /\ Answer.similarity_score = Some(75)
    /\ state.action = Some("map_to_existing")
    /\ state.error /= None


\* The stage a processing_history tag belongs to, 0 for a tag of no stage.
StageOfTag(tag) ==
    CASE tag = "field_analysis_completed" -> 1
      [] tag \in { "entity_matching_skipped", "entity_matching_completed",
                   "entity_matching_failed" } -> 2
      [] tag = "normalization_completed" -> 3
      [] tag = "mapping_generation_completed" -> 4
      [] tag = "response_prepared" -> 5
      [] OTHER -> 0

\* The tags are tags of stages, in the order of the stages, one per stage.
OrderedByStage(history) ==
    /\ \A i \in 1..Len(history) : StageOfTag(history[i]) >= 1
    /\ \A i, j \in 1..Len(history) :
          i < j => StageOfTag(history[i]) < StageOfTag(history[j])

\* C30: processing_history is append-only and ordered by stage: it is always a
\* subsequence of field_analysis_completed, one of entity_matching_skipped /
\* entity_matching_completed / entity_matching_failed, normalization_completed,
\* mapping_generation_completed, response_prepared, with at most one tag per
\* stage, and no step removes or reorders the tags already there.
C30_HistoryIsAppendOnlyAndOrdered ==
    [][ /\ Len(state'.processing_history) >= Len(state.processing_history)
        /\ SubSeq(state'.processing_history, 1, Len(state.processing_history))
              = state.processing_history
        /\ OrderedByStage(state'.processing_history) ]_vars

C30_Witness ==
    /\ Done
    /\ state.processing_history =
         << "field_analysis_completed", "entity_matching_failed",
            "normalization_completed", "response_prepared" >>

====
